---- MODULE Spec2Model ----
(***************************************************************************)
(* Model of the prediction-market contract (Clarity source embedded in     *)
(* src/src/integration/transaction-helper-node.ts, lines 336-601).         *)
(* The ledger is the contract's data: the markets, bets and user-stats     *)
(* maps, the two data variables, and the STX balances the contract moves   *)
(* with stx-transfer?.  A Clarity map is a function whose DOMAIN is the    *)
(* set of keys that were map-set; an (optional T) is a sequence of length  *)
(* 0 (none) or 1 (some).  A uint is 128 bits wide and + and * abort the    *)
(* call on overflow; the amounts here stay far below 2^128.                *)
(***************************************************************************)
EXTENDS Integers, Sequences, FiniteSets, TLC

\* ---------------------------------------------------------------- bounds
MaxMarkets == 2
MaxTime == 1
MaxWork == 3
InitBalance == 20
MaxStreak == 60
TestBalance == 1000000

\* ------------------------------------------------------- program constants
CONTRACT_OWNER == "deployer"
ERR_NOT_AUTHORIZED == 100
ERR_MARKET_NOT_FOUND == 101
ERR_MARKET_CLOSED == 102
ERR_MARKET_ALREADY_RESOLVED == 103
ERR_INSUFFICIENT_FUNDS == 104
ERR_INVALID_OUTCOME == 105
ERR_ALREADY_CLAIMED == 106

\* stx-transfer? failure codes of the host (Value Transfer)
STX_ERR_INSUFFICIENT_BALANCE == 1
STX_ERR_SENDER_IS_RECIPIENT == 2
STX_ERR_NON_POSITIVE_AMOUNT == 3

\* ------------------------------------------------------------ input sets
Users == {"deployer", "wallet_1"}
Contract == "prediction-market"
Accounts == Users \cup {Contract}
Labels == {"YES", "NO", "MAYBE"}
\* create-market arguments: <<outcome-a, outcome-b, end-time>>
MarketArgs == {<<"YES", "NO", 1>>, <<"YES", "YES", 1>>, <<"YES", "NO", 0>>}
Categories == {"CRYPTO"}
Questions == {"Will BTC hit 100k?"}
Amounts == {0, 10, 20}
FundAmounts == {0, 10}
\* calculate-multiplier arguments: every streak up to MaxStreak, and a far one.
Streaks == (0..MaxStreak) \cup {1000}

VARIABLES markets, bets, user_stats, market_id_nonce, treasury_balance,
          balances, block_height, last, placed, paid, created, claimants, fuel,
          multiplier_call

ledgerVars == <<markets, bets, user_stats, market_id_nonce, treasury_balance, balances>>
vars == <<markets, bets, user_stats, market_id_nonce, treasury_balance,
          balances, block_height, last, placed, paid, created, claimants, fuel,
          multiplier_call>>

\* ------------------------------------------------------- Clarity helpers
None == <<>>
Some(v) == <<v>>
IsSome(o) == Len(o) = 1
Unwrap(o) == o[1]

Ok(v) == [ok |-> TRUE, val |-> v]
Err(c) == [ok |-> FALSE, val |-> c]
OkTrue == Ok(1)

MapGet(f, k) == IF k \in DOMAIN f THEN Some(f[k]) ELSE None
MapSet(f, k, v) == [x \in (DOMAIN f) \cup {k} |-> IF x = k THEN v ELSE f[x]]
Merge(r, upd) == [f \in DOMAIN r |-> IF f \in DOMAIN upd THEN upd[f] ELSE r[f]]

EmptyMap == [x \in {} |-> 0]

\* The ledger as one value, so that an operation is a function of it.
Ledger == [markets |-> markets, bets |-> bets, user_stats |-> user_stats,
           market_id_nonce |-> market_id_nonce,
           treasury_balance |-> treasury_balance, balances |-> balances]

\* stx-transfer?: all-or-nothing move of amount from sender to recipient.
StxTransfer(bal, amount, sender, recipient) ==
    IF amount = 0 THEN [res |-> Err(STX_ERR_NON_POSITIVE_AMOUNT), bal |-> bal]
    ELSE IF sender = recipient THEN [res |-> Err(STX_ERR_SENDER_IS_RECIPIENT), bal |-> bal]
    ELSE IF bal[sender] < amount THEN [res |-> Err(STX_ERR_INSUFFICIENT_BALANCE), bal |-> bal]
    ELSE [res |-> OkTrue,
          bal |-> [a \in DOMAIN bal |->
                     IF a = sender THEN bal[a] - amount
                     ELSE IF a = recipient THEN bal[a] + amount
                     ELSE bal[a]]]

DefaultStats == [total_bets |-> 0, total_wins |-> 0, current_streak |-> 0,
                 highest_streak |-> 0, total_earnings |-> 0]

get_user_stats(L, user) ==
    IF IsSome(MapGet(L.user_stats, user)) THEN Unwrap(MapGet(L.user_stats, user))
    ELSE DefaultStats

calculate_multiplier_uncapped(streak) ==
    LET bonus_steps == streak \div 3
    IN bonus_steps * 10

calculate_multiplier(streak) ==
    LET bonus_steps == streak \div 3
        capped_steps == IF bonus_steps > 10 THEN 10 ELSE bonus_steps
    IN capped_steps * 10

\* What an operation returns: the response, the ledger it leaves, and the
\* values of its let-bindings that the properties speak about.
Out(res, L, win, share, bonus) ==
    [res |-> res, ledger |-> L, win |-> win, share |-> share, bonus |-> bonus]

\* asserts!, unwrap! and try! leave the function with the error response
\* before any map-set or var-set has run.
Fail(res, L) == Out(res, L, FALSE, 0, 0)

\* ---------------------------------------------------------- create-market
is_owner(sender) == sender = CONTRACT_OWNER

new_market_id_reuse(nonce) == nonce
new_market_id(nonce) == nonce + 1

new_market(category, question, outcome_a, outcome_b, height, end_time) ==
    [category |-> category, question |-> question,
     outcome_a |-> outcome_a, outcome_b |-> outcome_b,
     pool_a |-> 0, pool_b |-> 0,
     start_time |-> height, end_time |-> end_time,
     resolved |-> FALSE, winning_outcome |-> None,
     status |-> "OPEN"]

create_market_anyone(L, sender, height, category, question, outcome_a, outcome_b, end_time) ==
    LET market_id == new_market_id(L.market_id_nonce) IN
    Out(Ok(market_id),
        [L EXCEPT !.markets = MapSet(L.markets, market_id,
                      new_market(category, question, outcome_a, outcome_b, height, end_time)),
                  !.market_id_nonce = market_id],
        FALSE, 0, 0)

create_market_validated(L, sender, height, category, question, outcome_a, outcome_b, end_time) ==
    LET market_id == new_market_id(L.market_id_nonce) IN
    IF ~is_owner(sender) THEN Fail(Err(ERR_NOT_AUTHORIZED), L)
    ELSE IF end_time <= height THEN Fail(Err(ERR_MARKET_CLOSED), L)
    ELSE Out(Ok(market_id),
             [L EXCEPT !.markets = MapSet(L.markets, market_id,
                           new_market(category, question, outcome_a, outcome_b, height, end_time)),
                       !.market_id_nonce = market_id],
             FALSE, 0, 0)

create_market(L, sender, height, category, question, outcome_a, outcome_b, end_time) ==
    LET market_id == new_market_id(L.market_id_nonce) IN
    IF ~is_owner(sender) THEN Fail(Err(ERR_NOT_AUTHORIZED), L)
    ELSE Out(Ok(market_id),
             [L EXCEPT !.markets = MapSet(L.markets, market_id,
                           new_market(category, question, outcome_a, outcome_b, height, end_time)),
                       !.market_id_nonce = market_id],
             FALSE, 0, 0)

\* --------------------------------------------------------- resolve-market
resolved_market_unflagged(market, winning_outcome) ==
    Merge(market, [winning_outcome |-> Some(winning_outcome),
                   status |-> "RESOLVED"])

resolved_market(market, winning_outcome) ==
    Merge(market, [resolved |-> TRUE,
                   winning_outcome |-> Some(winning_outcome),
                   status |-> "RESOLVED"])

resolve_market_again(L, sender, market_id, winning_outcome) ==
    IF ~IsSome(MapGet(L.markets, market_id)) THEN Fail(Err(ERR_MARKET_NOT_FOUND), L)
    ELSE LET market == Unwrap(MapGet(L.markets, market_id)) IN
    IF ~is_owner(sender) THEN Fail(Err(ERR_NOT_AUTHORIZED), L)
    ELSE IF ~(winning_outcome = market.outcome_a \/ winning_outcome = market.outcome_b)
    THEN Fail(Err(ERR_INVALID_OUTCOME), L)
    ELSE Out(OkTrue,
             [L EXCEPT !.markets = MapSet(L.markets, market_id,
                                          resolved_market(market, winning_outcome))],
             FALSE, 0, 0)

resolve_market_any_label(L, sender, market_id, winning_outcome) ==
    IF ~IsSome(MapGet(L.markets, market_id)) THEN Fail(Err(ERR_MARKET_NOT_FOUND), L)
    ELSE LET market == Unwrap(MapGet(L.markets, market_id)) IN
    IF ~is_owner(sender) THEN Fail(Err(ERR_NOT_AUTHORIZED), L)
    ELSE IF market.resolved THEN Fail(Err(ERR_MARKET_ALREADY_RESOLVED), L)
    ELSE Out(OkTrue,
             [L EXCEPT !.markets = MapSet(L.markets, market_id,
                                          resolved_market(market, winning_outcome))],
             FALSE, 0, 0)

resolve_market_anyone(L, sender, market_id, winning_outcome) ==
    IF ~IsSome(MapGet(L.markets, market_id)) THEN Fail(Err(ERR_MARKET_NOT_FOUND), L)
    ELSE LET market == Unwrap(MapGet(L.markets, market_id)) IN
    IF market.resolved THEN Fail(Err(ERR_MARKET_ALREADY_RESOLVED), L)
    ELSE IF ~(winning_outcome = market.outcome_a \/ winning_outcome = market.outcome_b)
    THEN Fail(Err(ERR_INVALID_OUTCOME), L)
    ELSE Out(OkTrue,
             [L EXCEPT !.markets = MapSet(L.markets, market_id,
                                          resolved_market(market, winning_outcome))],
             FALSE, 0, 0)

resolve_market_label_first(L, sender, market_id, winning_outcome) ==
    IF ~IsSome(MapGet(L.markets, market_id)) THEN Fail(Err(ERR_MARKET_NOT_FOUND), L)
    ELSE LET market == Unwrap(MapGet(L.markets, market_id)) IN
    IF ~is_owner(sender) THEN Fail(Err(ERR_NOT_AUTHORIZED), L)
    ELSE IF ~(winning_outcome = market.outcome_a \/ winning_outcome = market.outcome_b)
    THEN Fail(Err(ERR_INVALID_OUTCOME), L)
    ELSE IF market.resolved THEN Fail(Err(ERR_MARKET_ALREADY_RESOLVED), L)
    ELSE Out(OkTrue,
             [L EXCEPT !.markets = MapSet(L.markets, market_id,
                                          resolved_market(market, winning_outcome))],
             FALSE, 0, 0)

resolve_market_resets_losers(L, sender, market_id, winning_outcome) ==
    IF ~IsSome(MapGet(L.markets, market_id)) THEN Fail(Err(ERR_MARKET_NOT_FOUND), L)
    ELSE LET market == Unwrap(MapGet(L.markets, market_id)) IN
    IF ~is_owner(sender) THEN Fail(Err(ERR_NOT_AUTHORIZED), L)
    ELSE IF market.resolved THEN Fail(Err(ERR_MARKET_ALREADY_RESOLVED), L)
    ELSE IF ~(winning_outcome = market.outcome_a \/ winning_outcome = market.outcome_b)
    THEN Fail(Err(ERR_INVALID_OUTCOME), L)
    ELSE Out(OkTrue,
             [L EXCEPT !.markets = MapSet(L.markets, market_id,
                                          resolved_market(market, winning_outcome)),
                       !.user_stats =
                           [u \in DOMAIN L.user_stats |->
                              IF /\ <<market_id, u>> \in DOMAIN L.bets
                                 /\ L.bets[<<market_id, u>>].outcome # winning_outcome
                              THEN Merge(L.user_stats[u], [current_streak |-> 0])
                              ELSE L.user_stats[u]]],
             FALSE, 0, 0)

resolve_market(L, sender, market_id, winning_outcome) ==
    IF ~IsSome(MapGet(L.markets, market_id)) THEN Fail(Err(ERR_MARKET_NOT_FOUND), L)
    ELSE LET market == Unwrap(MapGet(L.markets, market_id)) IN
    IF ~is_owner(sender) THEN Fail(Err(ERR_NOT_AUTHORIZED), L)
    ELSE IF market.resolved THEN Fail(Err(ERR_MARKET_ALREADY_RESOLVED), L)
    ELSE IF ~(winning_outcome = market.outcome_a \/ winning_outcome = market.outcome_b)
    THEN Fail(Err(ERR_INVALID_OUTCOME), L)
    ELSE Out(OkTrue,
             [L EXCEPT !.markets = MapSet(L.markets, market_id,
                                          resolved_market(market, winning_outcome))],
             FALSE, 0, 0)

\* -------------------------------------------------------------- place-bet
\* The validations of place-bet in their order: the first failing one's error
\* code, or 0 when all pass.
place_bet_validate_at_deadline(L, height, market_id, outcome, amount) ==
    IF ~IsSome(MapGet(L.markets, market_id)) THEN ERR_MARKET_NOT_FOUND
    ELSE LET market == Unwrap(MapGet(L.markets, market_id)) IN
    IF market.status # "OPEN" THEN ERR_MARKET_CLOSED
    ELSE IF ~(height <= market.end_time) THEN ERR_MARKET_CLOSED
    ELSE IF ~(outcome = market.outcome_a \/ outcome = market.outcome_b)
    THEN ERR_INVALID_OUTCOME
    ELSE IF ~(amount > 0) THEN ERR_INSUFFICIENT_FUNDS
    ELSE 0

place_bet_validate_amount_first(L, height, market_id, outcome, amount) ==
    IF ~IsSome(MapGet(L.markets, market_id)) THEN ERR_MARKET_NOT_FOUND
    ELSE LET market == Unwrap(MapGet(L.markets, market_id)) IN
    IF market.status # "OPEN" THEN ERR_MARKET_CLOSED
    ELSE IF ~(height < market.end_time) THEN ERR_MARKET_CLOSED
    ELSE IF ~(amount > 0) THEN ERR_INSUFFICIENT_FUNDS
    ELSE IF ~(outcome = market.outcome_a \/ outcome = market.outcome_b)
    THEN ERR_INVALID_OUTCOME
    ELSE 0

place_bet_validate_any_status(L, height, market_id, outcome, amount) ==
    IF ~IsSome(MapGet(L.markets, market_id)) THEN ERR_MARKET_NOT_FOUND
    ELSE LET market == Unwrap(MapGet(L.markets, market_id)) IN
    IF ~(height < market.end_time) THEN ERR_MARKET_CLOSED
    ELSE IF ~(outcome = market.outcome_a \/ outcome = market.outcome_b)
    THEN ERR_INVALID_OUTCOME
    ELSE IF ~(amount > 0) THEN ERR_INSUFFICIENT_FUNDS
    ELSE 0

place_bet_validate(L, height, market_id, outcome, amount) ==
    IF ~IsSome(MapGet(L.markets, market_id)) THEN ERR_MARKET_NOT_FOUND
    ELSE LET market == Unwrap(MapGet(L.markets, market_id)) IN
    IF market.status # "OPEN" THEN ERR_MARKET_CLOSED
    ELSE IF ~(height < market.end_time) THEN ERR_MARKET_CLOSED
    ELSE IF ~(outcome = market.outcome_a \/ outcome = market.outcome_b)
    THEN ERR_INVALID_OUTCOME
    ELSE IF ~(amount > 0) THEN ERR_INSUFFICIENT_FUNDS
    ELSE 0

new_pools_assign(market, outcome, amount) ==
    LET is_a == outcome = market.outcome_a
    IN [pool_a |-> IF is_a THEN amount ELSE market.pool_a,
        pool_b |-> IF is_a THEN market.pool_b ELSE amount]

new_pools_a_only(market, outcome, amount) ==
    LET is_a == outcome = market.outcome_a
    IN [pool_a |-> IF is_a THEN market.pool_a + amount ELSE market.pool_a,
        pool_b |-> market.pool_b]

new_pools_swapped(market, outcome, amount) ==
    LET is_a == outcome = market.outcome_a
    IN [pool_a |-> IF is_a THEN market.pool_a ELSE market.pool_a + amount,
        pool_b |-> IF is_a THEN market.pool_b + amount ELSE market.pool_b]

new_pools(market, outcome, amount) ==
    LET is_a == outcome = market.outcome_a
        new_pool_a == IF is_a THEN market.pool_a + amount ELSE market.pool_a
        new_pool_b == IF is_a THEN market.pool_b ELSE market.pool_b + amount
    IN [pool_a |-> new_pool_a, pool_b |-> new_pool_b]

place_bet_update_accumulate(L, bal, sender, market_id, outcome, amount) ==
    LET market == Unwrap(MapGet(L.markets, market_id))
        current_stats == get_user_stats(L, sender)
        old_bet == MapGet(L.bets, <<market_id, sender>>)
        old_amount == IF IsSome(old_bet) THEN Unwrap(old_bet).amount ELSE 0
    IN [L EXCEPT !.balances = bal,
                 !.markets = MapSet(L.markets, market_id,
                                    Merge(market, new_pools(market, outcome, amount))),
                 !.bets = MapSet(L.bets, <<market_id, sender>>,
                                 [outcome |-> outcome, amount |-> old_amount + amount,
                                  claimed |-> FALSE]),
                 !.user_stats = MapSet(L.user_stats, sender,
                                 Merge(current_stats,
                                       [total_bets |-> current_stats.total_bets + 1]))]

\* The three map-sets of place-bet, on the balances the transfer left.
place_bet_update_uncounted(L, bal, sender, market_id, outcome, amount) ==
    LET market == Unwrap(MapGet(L.markets, market_id))
        current_stats == get_user_stats(L, sender)
    IN [L EXCEPT !.balances = bal,
                 !.markets = MapSet(L.markets, market_id,
                                    Merge(market, new_pools(market, outcome, amount))),
                 !.bets = MapSet(L.bets, <<market_id, sender>>,
                                 [outcome |-> outcome, amount |-> amount, claimed |-> FALSE]),
                 !.user_stats = MapSet(L.user_stats, sender,
                                 current_stats)]

place_bet_update(L, bal, sender, market_id, outcome, amount) ==
    LET market == Unwrap(MapGet(L.markets, market_id))
        current_stats == get_user_stats(L, sender)
    IN [L EXCEPT !.balances = bal,
                 !.markets = MapSet(L.markets, market_id,
                                    Merge(market, new_pools(market, outcome, amount))),
                 !.bets = MapSet(L.bets, <<market_id, sender>>,
                                 [outcome |-> outcome, amount |-> amount, claimed |-> FALSE]),
                 !.user_stats = MapSet(L.user_stats, sender,
                                 Merge(current_stats,
                                       [total_bets |-> current_stats.total_bets + 1]))]

place_bet_records_first(L, sender, height, market_id, outcome, amount) ==
    LET v == place_bet_validate(L, height, market_id, outcome, amount) IN
    IF v # 0 THEN Fail(Err(v), L)
    ELSE LET t == StxTransfer(L.balances, amount, sender, Contract) IN
    IF ~t.res.ok
    THEN Fail(t.res, place_bet_update(L, L.balances, sender, market_id, outcome, amount))
    ELSE Out(OkTrue, place_bet_update(L, t.bal, sender, market_id, outcome, amount),
             FALSE, 0, 0)

place_bet_on_credit(L, sender, height, market_id, outcome, amount) ==
    LET v == place_bet_validate(L, height, market_id, outcome, amount) IN
    IF v # 0 THEN Fail(Err(v), L)
    ELSE Out(OkTrue, place_bet_update(L, L.balances, sender, market_id, outcome, amount),
             FALSE, 0, 0)

place_bet(L, sender, height, market_id, outcome, amount) ==
    LET v == place_bet_validate(L, height, market_id, outcome, amount) IN
    IF v # 0 THEN Fail(Err(v), L)
    ELSE LET t == StxTransfer(L.balances, amount, sender, Contract) IN
    IF ~t.res.ok THEN Fail(t.res, L)
    ELSE Out(OkTrue, place_bet_update(L, t.bal, sender, market_id, outcome, amount),
             FALSE, 0, 0)

\* --------------------------------------------------------- claim-winnings
\* A Clarity runtime error (division by zero) aborts the call; it is not one
\* of the contract's (err uN) responses.
RuntimeAbort == [ok |-> FALSE, val |-> -1]

\* (get user bet), line 560: the user of the bet, i.e. the user component of
\* the key { market-id, user: tx-sender } under which place-bet stored it.
bet_user_as_contract(market_id, sender) == Contract
bet_user(market_id, sender) == sender

winning_pool_of_a(market, winning_outcome) == market.pool_a

winning_pool_of_loser(market, winning_outcome) ==
    IF winning_outcome = market.outcome_a THEN market.pool_b ELSE market.pool_a

winning_pool_of(market, winning_outcome) ==
    IF winning_outcome = market.outcome_a THEN market.pool_a ELSE market.pool_b

actual_bonus_unchecked(treasury, bonus) == bonus
actual_bonus_partial(treasury, bonus) == IF treasury >= bonus THEN bonus ELSE treasury
actual_bonus_inverted(treasury, bonus) == IF treasury <= bonus THEN bonus ELSE 0
actual_bonus_of(treasury, bonus) == IF treasury >= bonus THEN bonus ELSE 0

mark_claimed_forgotten(bet) == bet
mark_claimed(bet) == Merge(bet, [claimed |-> TRUE])

claim_winnings_resolution_first(L, sender, market_id) ==
    IF ~IsSome(MapGet(L.markets, market_id)) THEN Fail(Err(ERR_MARKET_NOT_FOUND), L)
    ELSE LET market == Unwrap(MapGet(L.markets, market_id)) IN
    IF ~IsSome(market.winning_outcome) THEN Fail(Err(ERR_MARKET_NOT_FOUND), L)
    ELSE IF ~IsSome(MapGet(L.bets, <<market_id, sender>>)) THEN Fail(Err(ERR_NOT_AUTHORIZED), L)
    ELSE LET bet == Unwrap(MapGet(L.bets, <<market_id, sender>>))
             winning_outcome == Unwrap(market.winning_outcome)
             user_history == get_user_stats(L, sender) IN
    IF ~market.resolved THEN Fail(Err(ERR_MARKET_CLOSED), L)
    ELSE IF bet.claimed THEN Fail(Err(ERR_ALREADY_CLAIMED), L)
    ELSE IF bet.outcome = winning_outcome
    THEN LET total_pool == market.pool_a + market.pool_b
             winning_pool == winning_pool_of(market, winning_outcome)
         IN
         IF winning_pool = 0 THEN Fail(RuntimeAbort, L)
         ELSE LET share == (bet.amount * total_pool) \div winning_pool
                  new_streak == user_history.current_streak + 1
                  multiplier == calculate_multiplier(new_streak)
                  bonus == (share * multiplier) \div 100
                  actual_bonus == actual_bonus_of(L.treasury_balance, bonus)
                  total_payout == share + actual_bonus
                  t == StxTransfer(L.balances, total_payout, Contract,
                                   bet_user(market_id, sender))
              IN
              IF ~t.res.ok THEN Fail(t.res, L)
              ELSE Out(OkTrue,
                   [L EXCEPT
                      !.balances = t.bal,
                      !.treasury_balance = IF actual_bonus > 0
                                           THEN L.treasury_balance - actual_bonus
                                           ELSE L.treasury_balance,
                      !.user_stats = MapSet(L.user_stats, sender,
                          Merge(user_history,
                            [total_wins |-> user_history.total_wins + 1,
                             current_streak |-> new_streak,
                             highest_streak |->
                                 IF new_streak > user_history.highest_streak
                                 THEN new_streak ELSE user_history.highest_streak,
                             total_earnings |-> user_history.total_earnings + total_payout])),
                      !.bets = MapSet(L.bets, <<market_id, sender>>, mark_claimed(bet))],
                   TRUE, share, actual_bonus)
    ELSE Out(OkTrue,
             [L EXCEPT
                !.user_stats = MapSet(L.user_stats, sender,
                                      Merge(user_history, [current_streak |-> 0])),
                !.bets = MapSet(L.bets, <<market_id, sender>>, mark_claimed(bet))],
             FALSE, 0, 0)

claim_winnings_loss_keeps_streak(L, sender, market_id) ==
    IF ~IsSome(MapGet(L.markets, market_id)) THEN Fail(Err(ERR_MARKET_NOT_FOUND), L)
    ELSE LET market == Unwrap(MapGet(L.markets, market_id)) IN
    IF ~IsSome(MapGet(L.bets, <<market_id, sender>>)) THEN Fail(Err(ERR_NOT_AUTHORIZED), L)
    ELSE LET bet == Unwrap(MapGet(L.bets, <<market_id, sender>>)) IN
    IF ~IsSome(market.winning_outcome) THEN Fail(Err(ERR_MARKET_NOT_FOUND), L)
    ELSE LET winning_outcome == Unwrap(market.winning_outcome)
             user_history == get_user_stats(L, sender) IN
    IF ~market.resolved THEN Fail(Err(ERR_MARKET_CLOSED), L)
    ELSE IF bet.claimed THEN Fail(Err(ERR_ALREADY_CLAIMED), L)
    ELSE IF bet.outcome = winning_outcome
    THEN LET total_pool == market.pool_a + market.pool_b
             winning_pool == winning_pool_of(market, winning_outcome)
         IN
         IF winning_pool = 0 THEN Fail(RuntimeAbort, L)
         ELSE LET share == (bet.amount * total_pool) \div winning_pool
                  new_streak == user_history.current_streak + 1
                  multiplier == calculate_multiplier(new_streak)
                  bonus == (share * multiplier) \div 100
                  actual_bonus == actual_bonus_of(L.treasury_balance, bonus)
                  total_payout == share + actual_bonus
                  t == StxTransfer(L.balances, total_payout, Contract,
                                   bet_user(market_id, sender))
              IN
              IF ~t.res.ok THEN Fail(t.res, L)
              ELSE Out(OkTrue,
                   [L EXCEPT
                      !.balances = t.bal,
                      !.treasury_balance = IF actual_bonus > 0
                                           THEN L.treasury_balance - actual_bonus
                                           ELSE L.treasury_balance,
                      !.user_stats = MapSet(L.user_stats, sender,
                          Merge(user_history,
                            [total_wins |-> user_history.total_wins + 1,
                             current_streak |-> new_streak,
                             highest_streak |->
                                 IF new_streak > user_history.highest_streak
                                 THEN new_streak ELSE user_history.highest_streak,
                             total_earnings |-> user_history.total_earnings + total_payout])),
                      !.bets = MapSet(L.bets, <<market_id, sender>>, mark_claimed(bet))],
                   TRUE, share, actual_bonus)
    ELSE Out(OkTrue,
             [L EXCEPT
                !.user_stats = MapSet(L.user_stats, sender,
                                      user_history),
                !.bets = MapSet(L.bets, <<market_id, sender>>, mark_claimed(bet))],
             FALSE, 0, 0)

claim_winnings_highest_stale(L, sender, market_id) ==
    IF ~IsSome(MapGet(L.markets, market_id)) THEN Fail(Err(ERR_MARKET_NOT_FOUND), L)
    ELSE LET market == Unwrap(MapGet(L.markets, market_id)) IN
    IF ~IsSome(MapGet(L.bets, <<market_id, sender>>)) THEN Fail(Err(ERR_NOT_AUTHORIZED), L)
    ELSE LET bet == Unwrap(MapGet(L.bets, <<market_id, sender>>)) IN
    IF ~IsSome(market.winning_outcome) THEN Fail(Err(ERR_MARKET_NOT_FOUND), L)
    ELSE LET winning_outcome == Unwrap(market.winning_outcome)
             user_history == get_user_stats(L, sender) IN
    IF ~market.resolved THEN Fail(Err(ERR_MARKET_CLOSED), L)
    ELSE IF bet.claimed THEN Fail(Err(ERR_ALREADY_CLAIMED), L)
    ELSE IF bet.outcome = winning_outcome
    THEN LET total_pool == market.pool_a + market.pool_b
             winning_pool == winning_pool_of(market, winning_outcome)
         IN
         IF winning_pool = 0 THEN Fail(RuntimeAbort, L)
         ELSE LET share == (bet.amount * total_pool) \div winning_pool
                  new_streak == user_history.current_streak + 1
                  multiplier == calculate_multiplier(new_streak)
                  bonus == (share * multiplier) \div 100
                  actual_bonus == actual_bonus_of(L.treasury_balance, bonus)
                  total_payout == share + actual_bonus
                  t == StxTransfer(L.balances, total_payout, Contract,
                                   bet_user(market_id, sender))
              IN
              IF ~t.res.ok THEN Fail(t.res, L)
              ELSE Out(OkTrue,
                   [L EXCEPT
                      !.balances = t.bal,
                      !.treasury_balance = IF actual_bonus > 0
                                           THEN L.treasury_balance - actual_bonus
                                           ELSE L.treasury_balance,
                      !.user_stats = MapSet(L.user_stats, sender,
                          Merge(user_history,
                            [total_wins |-> user_history.total_wins + 1,
                             current_streak |-> new_streak,
                             highest_streak |-> user_history.highest_streak,
                             total_earnings |-> user_history.total_earnings + total_payout])),
                      !.bets = MapSet(L.bets, <<market_id, sender>>, mark_claimed(bet))],
                   TRUE, share, actual_bonus)
    ELSE Out(OkTrue,
             [L EXCEPT
                !.user_stats = MapSet(L.user_stats, sender,
                                      Merge(user_history, [current_streak |-> 0])),
                !.bets = MapSet(L.bets, <<market_id, sender>>, mark_claimed(bet))],
             FALSE, 0, 0)

claim_winnings_loss_wipes_stats(L, sender, market_id) ==
    IF ~IsSome(MapGet(L.markets, market_id)) THEN Fail(Err(ERR_MARKET_NOT_FOUND), L)
    ELSE LET market == Unwrap(MapGet(L.markets, market_id)) IN
    IF ~IsSome(MapGet(L.bets, <<market_id, sender>>)) THEN Fail(Err(ERR_NOT_AUTHORIZED), L)
    ELSE LET bet == Unwrap(MapGet(L.bets, <<market_id, sender>>)) IN
    IF ~IsSome(market.winning_outcome) THEN Fail(Err(ERR_MARKET_NOT_FOUND), L)
    ELSE LET winning_outcome == Unwrap(market.winning_outcome)
             user_history == get_user_stats(L, sender) IN
    IF ~market.resolved THEN Fail(Err(ERR_MARKET_CLOSED), L)
    ELSE IF bet.claimed THEN Fail(Err(ERR_ALREADY_CLAIMED), L)
    ELSE IF bet.outcome = winning_outcome
    THEN LET total_pool == market.pool_a + market.pool_b
             winning_pool == winning_pool_of(market, winning_outcome)
         IN
         IF winning_pool = 0 THEN Fail(RuntimeAbort, L)
         ELSE LET share == (bet.amount * total_pool) \div winning_pool
                  new_streak == user_history.current_streak + 1
                  multiplier == calculate_multiplier(new_streak)
                  bonus == (share * multiplier) \div 100
                  actual_bonus == actual_bonus_of(L.treasury_balance, bonus)
                  total_payout == share + actual_bonus
                  t == StxTransfer(L.balances, total_payout, Contract,
                                   bet_user(market_id, sender))
              IN
              IF ~t.res.ok THEN Fail(t.res, L)
              ELSE Out(OkTrue,
                   [L EXCEPT
                      !.balances = t.bal,
                      !.treasury_balance = IF actual_bonus > 0
                                           THEN L.treasury_balance - actual_bonus
                                           ELSE L.treasury_balance,
                      !.user_stats = MapSet(L.user_stats, sender,
                          Merge(user_history,
                            [total_wins |-> user_history.total_wins + 1,
                             current_streak |-> new_streak,
                             highest_streak |->
                                 IF new_streak > user_history.highest_streak
                                 THEN new_streak ELSE user_history.highest_streak,
                             total_earnings |-> user_history.total_earnings + total_payout])),
                      !.bets = MapSet(L.bets, <<market_id, sender>>, mark_claimed(bet))],
                   TRUE, share, actual_bonus)
    ELSE Out(OkTrue,
             [L EXCEPT
                !.user_stats = MapSet(L.user_stats, sender,
                                      Merge(DefaultStats, [current_streak |-> 0])),
                !.bets = MapSet(L.bets, <<market_id, sender>>, mark_claimed(bet))],
             FALSE, 0, 0)

claim_winnings_loss_refunds(L, sender, market_id) ==
    IF ~IsSome(MapGet(L.markets, market_id)) THEN Fail(Err(ERR_MARKET_NOT_FOUND), L)
    ELSE LET market == Unwrap(MapGet(L.markets, market_id)) IN
    IF ~IsSome(MapGet(L.bets, <<market_id, sender>>)) THEN Fail(Err(ERR_NOT_AUTHORIZED), L)
    ELSE LET bet == Unwrap(MapGet(L.bets, <<market_id, sender>>)) IN
    IF ~IsSome(market.winning_outcome) THEN Fail(Err(ERR_MARKET_NOT_FOUND), L)
    ELSE LET winning_outcome == Unwrap(market.winning_outcome)
             user_history == get_user_stats(L, sender) IN
    IF ~market.resolved THEN Fail(Err(ERR_MARKET_CLOSED), L)
    ELSE IF bet.claimed THEN Fail(Err(ERR_ALREADY_CLAIMED), L)
    ELSE IF bet.outcome = winning_outcome
    THEN LET total_pool == market.pool_a + market.pool_b
             winning_pool == winning_pool_of(market, winning_outcome)
         IN
         IF winning_pool = 0 THEN Fail(RuntimeAbort, L)
         ELSE LET share == (bet.amount * total_pool) \div winning_pool
                  new_streak == user_history.current_streak + 1
                  multiplier == calculate_multiplier(new_streak)
                  bonus == (share * multiplier) \div 100
                  actual_bonus == actual_bonus_of(L.treasury_balance, bonus)
                  total_payout == share + actual_bonus
                  t == StxTransfer(L.balances, total_payout, Contract,
                                   bet_user(market_id, sender))
              IN
              IF ~t.res.ok THEN Fail(t.res, L)
              ELSE Out(OkTrue,
                   [L EXCEPT
                      !.balances = t.bal,
                      !.treasury_balance = IF actual_bonus > 0
                                           THEN L.treasury_balance - actual_bonus
                                           ELSE L.treasury_balance,
                      !.user_stats = MapSet(L.user_stats, sender,
                          Merge(user_history,
                            [total_wins |-> user_history.total_wins + 1,
                             current_streak |-> new_streak,
                             highest_streak |->
                                 IF new_streak > user_history.highest_streak
                                 THEN new_streak ELSE user_history.highest_streak,
                             total_earnings |-> user_history.total_earnings + total_payout])),
                      !.bets = MapSet(L.bets, <<market_id, sender>>, mark_claimed(bet))],
                   TRUE, share, actual_bonus)
    ELSE Out(OkTrue,
             [L EXCEPT
                !.user_stats = MapSet(L.user_stats, sender,
                                      Merge(user_history, [current_streak |-> 0])),
                !.balances = StxTransfer(L.balances, bet.amount, Contract, sender).bal,
                !.bets = MapSet(L.bets, <<market_id, sender>>, mark_claimed(bet))],
             FALSE, 0, 0)

claim_winnings(L, sender, market_id) ==
    IF ~IsSome(MapGet(L.markets, market_id)) THEN Fail(Err(ERR_MARKET_NOT_FOUND), L)
    ELSE LET market == Unwrap(MapGet(L.markets, market_id)) IN
    IF ~IsSome(MapGet(L.bets, <<market_id, sender>>)) THEN Fail(Err(ERR_NOT_AUTHORIZED), L)
    ELSE LET bet == Unwrap(MapGet(L.bets, <<market_id, sender>>)) IN
    IF ~IsSome(market.winning_outcome) THEN Fail(Err(ERR_MARKET_NOT_FOUND), L)
    ELSE LET winning_outcome == Unwrap(market.winning_outcome)
             user_history == get_user_stats(L, sender) IN
    IF ~market.resolved THEN Fail(Err(ERR_MARKET_CLOSED), L)
    ELSE IF bet.claimed THEN Fail(Err(ERR_ALREADY_CLAIMED), L)
    ELSE IF bet.outcome = winning_outcome
    THEN LET total_pool == market.pool_a + market.pool_b
             winning_pool == winning_pool_of(market, winning_outcome)
         IN
         IF winning_pool = 0 THEN Fail(RuntimeAbort, L)
         ELSE LET share == (bet.amount * total_pool) \div winning_pool
                  new_streak == user_history.current_streak + 1
                  multiplier == calculate_multiplier(new_streak)
                  bonus == (share * multiplier) \div 100
                  actual_bonus == actual_bonus_of(L.treasury_balance, bonus)
                  total_payout == share + actual_bonus
                  t == StxTransfer(L.balances, total_payout, Contract,
                                   bet_user(market_id, sender))
              IN
              IF ~t.res.ok THEN Fail(t.res, L)
              ELSE Out(OkTrue,
                   [L EXCEPT
                      !.balances = t.bal,
                      !.treasury_balance = IF actual_bonus > 0
                                           THEN L.treasury_balance - actual_bonus
                                           ELSE L.treasury_balance,
                      !.user_stats = MapSet(L.user_stats, sender,
                          Merge(user_history,
                            [total_wins |-> user_history.total_wins + 1,
                             current_streak |-> new_streak,
                             highest_streak |->
                                 IF new_streak > user_history.highest_streak
                                 THEN new_streak ELSE user_history.highest_streak,
                             total_earnings |-> user_history.total_earnings + total_payout])),
                      !.bets = MapSet(L.bets, <<market_id, sender>>, mark_claimed(bet))],
                   TRUE, share, actual_bonus)
    ELSE Out(OkTrue,
             [L EXCEPT
                !.user_stats = MapSet(L.user_stats, sender,
                                      Merge(user_history, [current_streak |-> 0])),
                !.bets = MapSet(L.bets, <<market_id, sender>>, mark_claimed(bet))],
             FALSE, 0, 0)

\* ---------------------------------------------------------- fund-treasury
fund_treasury_owner_only(L, sender, amount) ==
    IF ~is_owner(sender) THEN Fail(Err(ERR_NOT_AUTHORIZED), L)
    ELSE LET t == StxTransfer(L.balances, amount, sender, Contract) IN
    IF ~t.res.ok THEN Fail(t.res, L)
    ELSE Out(OkTrue,
             [L EXCEPT !.balances = t.bal,
                       !.treasury_balance = L.treasury_balance + amount],
             FALSE, 0, 0)

fund_treasury_unchecked(L, sender, amount) ==
    LET t == StxTransfer(L.balances, amount, sender, Contract) IN
    Out(OkTrue,
        [L EXCEPT !.balances = t.bal,
                  !.treasury_balance = L.treasury_balance + amount],
        FALSE, 0, 0)

fund_treasury(L, sender, amount) ==
    LET t == StxTransfer(L.balances, amount, sender, Contract) IN
    IF ~t.res.ok THEN Fail(t.res, L)
    ELSE Out(OkTrue,
             [L EXCEPT !.balances = t.bal,
                       !.treasury_balance = L.treasury_balance + amount],
             FALSE, 0, 0)

\* ------------------------------------------------------------ the machine
\* The call the last step made: operation, tx-sender, response and (for a
\* claim) the branch taken, the share and the bonus actually paid.
Call(op, sender, o) ==
    [op |-> op, sender |-> sender, res |-> o.res, win |-> o.win, share |-> o.share,
     bonus |-> o.bonus]

NoCall == [op |-> "deploy", sender |-> CONTRACT_OWNER, res |-> OkTrue, win |-> FALSE,
           share |-> 0, bonus |-> 0]

Install(L) ==
    /\ markets' = L.markets
    /\ bets' = L.bets
    /\ user_stats' = L.user_stats
    /\ market_id_nonce' = L.market_id_nonce
    /\ treasury_balance' = L.treasury_balance
    /\ balances' = L.balances

\* Bounding device: every successful create-market, place-bet and fund-treasury
\* spends one unit of work, and a create-market one market slot, so that a run
\* holds finitely many of them.
SpendWork(o) == IF o.res.ok THEN [fuel EXCEPT !.work = @ - 1] ELSE fuel
SpendMarket(o) == IF o.res.ok THEN [fuel EXCEPT !.work = @ - 1, !.markets = @ - 1] ELSE fuel

\* History: per market the amounts placed and the shares paid.
Bump(f, k, n) ==
    [x \in (DOMAIN f) \cup {k} |-> IF x = k THEN (IF k \in DOMAIN f THEN f[k] ELSE 0) + n
                                   ELSE f[x]]
At(f, k) == IF k \in DOMAIN f THEN f[k] ELSE 0

\* The read-only calculate-multiplier: the streak it was called with and, once
\* it has returned, its result.
NoMultiplierCall == [streak |-> 0, result |-> None]

\* The ledger right after deployment.
FreshLedger ==
    [markets |-> EmptyMap, bets |-> EmptyMap, user_stats |-> EmptyMap,
     market_id_nonce |-> 0, treasury_balance |-> 0,
     balances |-> [a \in Accounts |-> IF a = Contract THEN 0 ELSE InitBalance]]

Init ==
    /\ markets = FreshLedger.markets
    /\ bets = FreshLedger.bets
    /\ user_stats = FreshLedger.user_stats
    /\ market_id_nonce = FreshLedger.market_id_nonce
    /\ treasury_balance = FreshLedger.treasury_balance
    /\ balances = FreshLedger.balances
    /\ block_height = 0
    /\ last = NoCall
    /\ placed = EmptyMap
    /\ paid = EmptyMap
    /\ created = 0
    /\ claimants = {}
    /\ fuel = [work |-> MaxWork, markets |-> MaxMarkets]
    /\ multiplier_call = NoMultiplierCall

\* The market ids a call may name: every existing id and the first absent one.
MarketIds == 1..(market_id_nonce + 1)

CreateMarket ==
    \E sender \in Users, c \in Categories, q \in Questions, a \in MarketArgs :
        LET o == create_market(Ledger, sender, block_height, c, q, a[1], a[2], a[3]) IN
        /\ fuel.work > 0 /\ fuel.markets > 0
        /\ Install(o.ledger)
        /\ last' = Call("create-market", sender, o)
        /\ created' = IF o.res.ok THEN created + 1 ELSE created
        /\ fuel' = SpendMarket(o)
        /\ UNCHANGED <<block_height, placed, paid, claimants, multiplier_call>>

ResolveMarket ==
    \E sender \in Users, m \in MarketIds, w \in Labels :
        LET o == resolve_market(Ledger, sender, m, w) IN
        /\ Install(o.ledger)
        /\ last' = Call("resolve-market", sender, o)
        /\ UNCHANGED <<block_height, placed, paid, created, claimants, fuel, multiplier_call>>

PlaceBet ==
    \E sender \in Users, m \in MarketIds, w \in Labels, amt \in Amounts :
        LET o == place_bet(Ledger, sender, block_height, m, w, amt) IN
        /\ fuel.work > 0
        /\ Install(o.ledger)
        /\ last' = Call("place-bet", sender, o)
        /\ placed' = IF o.res.ok THEN Bump(placed, m, amt) ELSE placed
        /\ fuel' = SpendWork(o)
        /\ UNCHANGED <<block_height, paid, created, claimants, multiplier_call>>

ClaimWinnings ==
    \E sender \in Users, m \in MarketIds :
        LET o == claim_winnings(Ledger, sender, m) IN
        /\ Install(o.ledger)
        /\ last' = Call("claim-winnings", sender, o)
        /\ paid' = IF o.res.ok /\ o.win THEN Bump(paid, m, o.share) ELSE paid
        /\ claimants' = IF o.res.ok THEN claimants \cup {<<m, sender>>} ELSE claimants
        /\ UNCHANGED <<block_height, placed, created, fuel, multiplier_call>>

FundTreasury ==
    \E sender \in Users, amt \in FundAmounts :
        LET o == fund_treasury(Ledger, sender, amt) IN
        /\ fuel.work > 0
        /\ Install(o.ledger)
        /\ last' = Call("fund-treasury", sender, o)
        /\ fuel' = SpendWork(o)
        /\ UNCHANGED <<block_height, placed, paid, created, claimants, multiplier_call>>

\* The host advances the block height between calls.
Tick ==
    /\ block_height < MaxTime
    /\ block_height' = block_height + 1
    /\ last' = [NoCall EXCEPT !.op = "tick"]
    /\ UNCHANGED <<ledgerVars, placed, paid, created, claimants, fuel, multiplier_call>>

Next == CreateMarket \/ ResolveMarket \/ PlaceBet \/ ClaimWinnings \/ FundTreasury \/ Tick

Spec == Init /\ [][Next]_vars

\* ------------------------------------------------- a ledger with a streak
\* One round won alone: the owner creates market id, wallet_1 bets 10 on YES,
\* the owner resolves to YES, wallet_1 claims.  The result of the claim.
WinRound(L, id) ==
    LET o1 == create_market(L, CONTRACT_OWNER, 0, "CRYPTO", "Will BTC hit 100k?", "YES", "NO", 1)
        o2 == place_bet(o1.ledger, "wallet_1", 0, id, "YES", 10)
        o3 == resolve_market(o2.ledger, CONTRACT_OWNER, id, "YES")
    IN claim_winnings(o3.ledger, "wallet_1", id)

Round1 == WinRound(FreshLedger, 1)
Round2 == WinRound(Round1.ledger, 2)

\* The state after wallet_1 won two rounds in a row: its next win is its third.
InitStreak ==
    /\ markets = Round2.ledger.markets
    /\ bets = Round2.ledger.bets
    /\ user_stats = Round2.ledger.user_stats
    /\ market_id_nonce = Round2.ledger.market_id_nonce
    /\ treasury_balance = Round2.ledger.treasury_balance
    /\ balances = Round2.ledger.balances
    /\ block_height = 0
    /\ last = Call("claim-winnings", "wallet_1", Round2)
    /\ placed = [m \in {1, 2} |-> 10]
    /\ paid = [m \in {1, 2} |-> IF m = 1 THEN Round1.share ELSE Round2.share]
    /\ created = 2
    /\ claimants = {<<1, "wallet_1">>, <<2, "wallet_1">>}
    /\ fuel = [work |-> MaxWork, markets |-> 1]
    /\ multiplier_call = NoMultiplierCall

SpecStreak == InitStreak /\ [][Next]_vars

\* ------------------------------------------------ a market with stakes
\* Market 1 with 20 of wallet_1 and 10 of the deployer on YES: one more bet
\* on NO makes the total pool no multiple of the winning pool.
ShareSetup ==
    LET o1 == create_market(FreshLedger, CONTRACT_OWNER, 0, "CRYPTO", "Will BTC hit 100k?",
                            "YES", "NO", 1)
        o2 == place_bet(o1.ledger, "wallet_1", 0, 1, "YES", 20)
    IN place_bet(o2.ledger, "deployer", 0, 1, "YES", 10)

InitShare ==
    /\ markets = ShareSetup.ledger.markets
    /\ bets = ShareSetup.ledger.bets
    /\ user_stats = ShareSetup.ledger.user_stats
    /\ market_id_nonce = ShareSetup.ledger.market_id_nonce
    /\ treasury_balance = ShareSetup.ledger.treasury_balance
    /\ balances = ShareSetup.ledger.balances
    /\ block_height = 0
    /\ last = Call("place-bet", "deployer", ShareSetup)
    /\ placed = [m \in {1} |-> 30]
    /\ paid = EmptyMap
    /\ created = 1
    /\ claimants = {}
    /\ fuel = [work |-> MaxWork - 1, markets |-> 1]
    /\ multiplier_call = NoMultiplierCall

SpecShare == InitShare /\ [][Next]_vars

\* ------------------------------------------------- the suites' scenarios
\* The simnet ledger of the test suites: deployer, wallet_1 and wallet_2 hold
\* funds, the contract none.
TestLedger ==
    [FreshLedger EXCEPT !.balances =
        [a \in {"deployer", "wallet_1", "wallet_2", Contract} |->
            IF a = Contract THEN 0 ELSE TestBalance]]

\* The deployer funds the treasury and creates a market; wallet_1 stakes on
\* outcome-a and wallet_2 on outcome-b; the deployer resolves to outcome-a
\* and wallet_1 claims.  The result of the claim.
OppositeBets(funding, outcome_a, outcome_b, end_time, stake_a, stake_b) ==
    LET o0 == fund_treasury(TestLedger, "deployer", funding)
        o1 == create_market(o0.ledger, "deployer", 0, "WORLD", "Election?",
                            outcome_a, outcome_b, end_time)
        o2 == place_bet(o1.ledger, "wallet_1", 0, 1, outcome_a, stake_a)
        o3 == place_bet(o2.ledger, "wallet_2", 0, 1, outcome_b, stake_b)
        o4 == resolve_market(o3.ledger, "deployer", 1, outcome_a)
    IN claim_winnings(o4.ledger, "wallet_1", 1)

\* One market of the streak loop: created by the deployer, bet on by wallet_1
\* alone, resolved to wallet_1's outcome and claimed.  The result of the claim.
SoloWin(L, id, stake) ==
    LET o1 == create_market(L, "deployer", 0, "TEST", "Q", "A", "B", 10000)
        o2 == place_bet(o1.ledger, "wallet_1", 0, id, "A", stake)
        o3 == resolve_market(o2.ledger, "deployer", id, "A")
    IN claim_winnings(o3.ledger, "wallet_1", id)

\* The streak test: the treasury funded with 1000000, three markets won alone
\* by wallet_1 with 1000 each, then market 4 with wallet_1 on A and wallet_2
\* on B, resolved to A.  The ledger before wallet_1's fourth claim.
StreakTest(stake_a, stake_b) ==
    LET o0 == fund_treasury(TestLedger, "deployer", 1000000)
        r1 == SoloWin(o0.ledger, 1, 1000)
        r2 == SoloWin(r1.ledger, 2, 1000)
        r3 == SoloWin(r2.ledger, 3, 1000)
        o1 == create_market(r3.ledger, "deployer", 0, "TEST", "Q", "A", "B", 10000)
        o2 == place_bet(o1.ledger, "wallet_1", 0, 4, "A", stake_a)
        o3 == place_bet(o2.ledger, "wallet_2", 0, 4, "B", stake_b)
    IN resolve_market(o3.ledger, "deployer", 4, "A").ledger

\* The same rounds with the treasury funded with any amount: the results of
\* wallet_1's third claim and the ledger before its fourth.
FundedStreak(funding, stake_a, stake_b) ==
    LET o0 == fund_treasury(TestLedger, "deployer", funding)
        r1 == SoloWin(o0.ledger, 1, 1000)
        r2 == SoloWin(r1.ledger, 2, 1000)
        r3 == SoloWin(r2.ledger, 3, 1000)
        o1 == create_market(r3.ledger, "deployer", 0, "TEST", "Q", "A", "B", 10000)
        o2 == place_bet(o1.ledger, "wallet_1", 0, 4, "A", stake_a)
        o3 == place_bet(o2.ledger, "wallet_2", 0, 4, "B", stake_b)
    IN [third |-> r3, ledger |-> resolve_market(o3.ledger, "deployer", 4, "A").ledger]

\* ------------------------------------------- calculate-multiplier alone
\* The read-only function called on its own, with any streak of Streaks.
InitMultiplier ==
    /\ markets = FreshLedger.markets
    /\ bets = FreshLedger.bets
    /\ user_stats = FreshLedger.user_stats
    /\ market_id_nonce = FreshLedger.market_id_nonce
    /\ treasury_balance = FreshLedger.treasury_balance
    /\ balances = FreshLedger.balances
    /\ block_height = 0
    /\ last = NoCall
    /\ placed = EmptyMap
    /\ paid = EmptyMap
    /\ created = 0
    /\ claimants = {}
    /\ fuel = [work |-> 0, markets |-> 0]
    /\ \E s \in Streaks : multiplier_call = [streak |-> s, result |-> None]

CalculateMultiplier ==
    /\ ~IsSome(multiplier_call.result)
    /\ multiplier_call' =
          [multiplier_call EXCEPT !.result = Some(calculate_multiplier(multiplier_call.streak))]
    /\ UNCHANGED <<ledgerVars, block_height, last, placed, paid, created, claimants, fuel>>

NextMultiplier == CalculateMultiplier

SpecMultiplier == InitMultiplier /\ [][NextMultiplier]_vars

\* ================================================================ claims

Pools(m) == markets[m].pool_a + markets[m].pool_b

\* C1: once a user has claimed on a market (win or loss), a further
\* claim-winnings by that user on that market fails with ERR-ALREADY-CLAIMED
\* (106) and leaves the whole ledger as it was.
C1_ClaimTwiceFails ==
    \A k \in claimants :
        LET o == claim_winnings(Ledger, k[2], k[1])
        IN o.res = Err(ERR_ALREADY_CLAIMED) /\ o.ledger = Ledger

C1_Witness ==
    /\ last.op = "claim-winnings"
    /\ last.res = Err(ERR_ALREADY_CLAIMED)
    /\ \E k \in claimants : k[2] = last.sender

\* C2: for every market the shares paid by its winning claims sum to at most
\* pool-a + pool-b, also when a bet record was overwritten by a re-bet.
C2_SharesWithinPools ==
    /\ DOMAIN paid \subseteq DOMAIN markets
    /\ \A m \in DOMAIN markets : At(paid, m) <= Pools(m)

C2_Witness ==
    \E k \in claimants :
        /\ DOMAIN bets = {k}
        /\ At(paid, k[1]) > 0
        /\ At(placed, k[1]) > bets[k].amount

\* C3: for every market pool-a + pool-b equals the sum of the amounts of all
\* successful place-bet calls on it, overwritten ones included.
C3_PoolsEqualPlaced ==
    /\ DOMAIN placed \subseteq DOMAIN markets
    /\ \A m \in DOMAIN markets : Pools(m) = At(placed, m)

C3_Witness ==
    \E k \in DOMAIN bets :
        /\ DOMAIN bets = {k}
        /\ claimants = {}
        /\ At(placed, k[1]) > bets[k].amount

\* C4: the treasury balance is never negative; it rises only in a successful
\* fund-treasury and falls only in a successful winning claim-winnings, by
\* exactly the bonus paid in that claim.
C4_Treasury ==
    /\ [](treasury_balance >= 0)
    /\ [][/\ treasury_balance' > treasury_balance =>
                (last'.op = "fund-treasury" /\ last'.res.ok)
          /\ treasury_balance' < treasury_balance =>
                (/\ last'.op = "claim-winnings" /\ last'.res.ok /\ last'.win
                 /\ treasury_balance - treasury_balance' = last'.bonus)]_vars

C4_Witness ==
    /\ last.op = "claim-winnings"
    /\ last.res.ok
    /\ last.bonus > 0

\* C5: for every market, winning-outcome is set iff resolved is true iff
\* status is "RESOLVED", and a set winning-outcome is outcome-a or outcome-b.
C5_ResolvedConsistent ==
    \A m \in DOMAIN markets :
        /\ IsSome(markets[m].winning_outcome) <=> markets[m].resolved
        /\ markets[m].resolved <=> markets[m].status = "RESOLVED"
        /\ IsSome(markets[m].winning_outcome) =>
              Unwrap(markets[m].winning_outcome) \in {markets[m].outcome_a, markets[m].outcome_b}

C5_Witness ==
    /\ last.op = "resolve-market"
    /\ last.res.ok
    /\ \E m \in DOMAIN markets : markets[m].resolved

\* C6: the only status change is OPEN to RESOLVED; a resolved market stays
\* resolved with the same winning outcome; no market is deleted; no market
\* has status CLOSED.
C6_Lifecycle ==
    /\ [](\A m \in DOMAIN markets : markets[m].status \in {"OPEN", "RESOLVED"})
    /\ [][\A m \in DOMAIN markets :
            /\ m \in DOMAIN markets'
            /\ markets'[m].status # markets[m].status =>
                  (markets[m].status = "OPEN" /\ markets'[m].status = "RESOLVED")
            /\ markets[m].resolved =>
                  (/\ markets'[m].resolved
                   /\ markets'[m].winning_outcome = markets[m].winning_outcome)]_vars

C6_Witness ==
    /\ last.op = "resolve-market"
    /\ last.res = Err(ERR_MARKET_ALREADY_RESOLVED)

\* C7: a call that returns a failure leaves markets, bets, user-stats, the
\* nonce, the treasury balance and every account balance unchanged.
C7_FailureChangesNothing ==
    [][~last'.res.ok => UNCHANGED ledgerVars]_vars

C7_Witness ==
    /\ last.op = "place-bet"
    /\ last.res = Err(STX_ERR_INSUFFICIENT_BALANCE)

\* C8: every failure carries one of the seven codes 100..106.
C8_ClosedErrorCodes ==
    ~last.res.ok => last.res.val \in ERR_NOT_AUTHORIZED..ERR_ALREADY_CLAIMED

\* C9: create-market by a caller other than the owner fails with
\* ERR-NOT-AUTHORIZED (100), changes nothing, and the owner's next creation
\* still returns the next sequential id.
C9_NonOwnerCreate ==
    [][(last'.op = "create-market" /\ last'.sender # CONTRACT_OWNER) =>
          /\ last'.res = Err(ERR_NOT_AUTHORIZED)
          /\ UNCHANGED ledgerVars
          /\ \A a \in MarketArgs :
                create_market(Ledger, CONTRACT_OWNER, block_height, "CRYPTO",
                              "Will BTC hit 100k?", a[1], a[2], a[3])'.res
                    = Ok(market_id_nonce + 1)]_vars

C9_Witness ==
    /\ last.op = "create-market"
    /\ last.sender # CONTRACT_OWNER
    /\ last.res = Err(ERR_NOT_AUTHORIZED)
    /\ market_id_nonce = 1

\* C10: the k-th successful create-market returns k, the nonce equals the
\* number of markets created, the existing ids are exactly 1..nonce, and a
\* creation never reuses an existing id.
C10_SequentialIds ==
    /\ [](/\ market_id_nonce = created
          /\ DOMAIN markets = 1..market_id_nonce
          /\ (last.op = "create-market" /\ last.res.ok) => last.res.val = created)
    /\ [][(last'.op = "create-market" /\ last'.res.ok) =>
             last'.res.val \notin DOMAIN markets]_vars

C10_Witness ==
    /\ last.op = "create-market"
    /\ last.res = Ok(2)
    /\ created = 2

\* C11 (as stated): resolve-market by an account other than the owner fails
\* with ERR-NOT-AUTHORIZED (100) for every market id, existing or absent, and
\* every label, and changes no state.
C11_NonOwnerAlways100 ==
    [][(last'.op = "resolve-market" /\ last'.sender # CONTRACT_OWNER) =>
          (last'.res = Err(ERR_NOT_AUTHORIZED) /\ UNCHANGED ledgerVars)]_vars

\* C11 (amended): resolve-market by an account other than the owner fails
\* with ERR-NOT-AUTHORIZED (100) on every existing market, resolved or not,
\* whatever the label, and with ERR-MARKET-NOT-FOUND (101) on an absent id;
\* in both cases the ledger is unchanged.
C11_NonOwnerResolve ==
    \A u \in Users \ {CONTRACT_OWNER}, m \in MarketIds, w \in Labels :
        LET o == resolve_market(Ledger, u, m, w)
        IN /\ o.ledger = Ledger
           /\ o.res = IF m \in DOMAIN markets THEN Err(ERR_NOT_AUTHORIZED)
                      ELSE Err(ERR_MARKET_NOT_FOUND)

C11_Witness ==
    /\ last.op = "resolve-market"
    /\ last.sender # CONTRACT_OWNER
    /\ last.res = Err(ERR_NOT_AUTHORIZED)
    /\ \E m \in DOMAIN markets : markets[m].resolved
    /\ \E m \in DOMAIN markets : ~markets[m].resolved

\* C12: resolve-market by the owner on an existing market fails with
\* ERR-MARKET-ALREADY-RESOLVED (103) if the market is resolved, whatever the
\* label, and otherwise with ERR-INVALID-OUTCOME (105) if the label is neither
\* outcome-a nor outcome-b; both leave the ledger unchanged, and a step never
\* changes a winning outcome that is set.
C12_OwnerResolveFailures ==
    /\ [](\A m \in DOMAIN markets, w \in Labels :
            LET o == resolve_market(Ledger, CONTRACT_OWNER, m, w) IN
            /\ markets[m].resolved =>
                  (o.res = Err(ERR_MARKET_ALREADY_RESOLVED) /\ o.ledger = Ledger)
            /\ (~markets[m].resolved
                  /\ w \notin {markets[m].outcome_a, markets[m].outcome_b}) =>
                  (o.res = Err(ERR_INVALID_OUTCOME) /\ o.ledger = Ledger))
    /\ [][\A m \in DOMAIN markets :
            IsSome(markets[m].winning_outcome) =>
                markets'[m].winning_outcome = markets[m].winning_outcome]_vars

C12_Witness ==
    /\ last.op = "resolve-market"
    /\ last.sender = CONTRACT_OWNER
    /\ last.res = Err(ERR_INVALID_OUTCOME)
    /\ \E m \in DOMAIN markets : markets[m].resolved

\* C13: place-bet on an existing market fails with ERR-MARKET-CLOSED (102)
\* whenever the status is not "OPEN" or the block height is not strictly below
\* end-time (at the deadline, past it, or after resolution), whatever the
\* label and the amount, and leaves pools, stats and the rest of the ledger
\* unchanged.
C13_ClosedMarketRejectsBet ==
    \A u \in Users, m \in DOMAIN markets, w \in Labels, amt \in Amounts :
        LET o == place_bet(Ledger, u, block_height, m, w, amt) IN
        (markets[m].status # "OPEN" \/ block_height >= markets[m].end_time) =>
            /\ o.res = Err(ERR_MARKET_CLOSED)
            /\ o.ledger.markets = markets
            /\ o.ledger.user_stats = user_stats
            /\ o.ledger = Ledger

C13_Witness ==
    /\ last.op = "place-bet"
    /\ last.res = Err(ERR_MARKET_CLOSED)
    /\ DOMAIN markets = {1}
    /\ markets[1].status = "OPEN"
    /\ block_height = markets[1].end_time

\* C14: place-bet reports the first failing check in the order
\* ERR-MARKET-NOT-FOUND (101), ERR-MARKET-CLOSED (102), ERR-INVALID-OUTCOME
\* (105), ERR-INSUFFICIENT-FUNDS (104, amount 0), also when later checks would
\* fail too, and in each case the whole ledger (pools, bets, stats, balances)
\* is unchanged.
C14_PlaceBetCheckOrder ==
    \A u \in Users, m \in MarketIds, w \in Labels, amt \in Amounts :
        LET o == place_bet(Ledger, u, block_height, m, w, amt)
            absent == m \notin DOMAIN markets
            closed == markets[m].status # "OPEN" \/ ~(block_height < markets[m].end_time)
            badLabel == w # markets[m].outcome_a /\ w # markets[m].outcome_b
            fails(code) == o.res = Err(code) /\ o.ledger = Ledger
        IN /\ absent => fails(ERR_MARKET_NOT_FOUND)
           /\ (~absent /\ closed) => fails(ERR_MARKET_CLOSED)
           /\ (~absent /\ ~closed /\ badLabel) => fails(ERR_INVALID_OUTCOME)
           /\ (~absent /\ ~closed /\ ~badLabel /\ amt = 0) => fails(ERR_INSUFFICIENT_FUNDS)

C14_Witness ==
    /\ last.op = "place-bet"
    /\ last.res = Err(ERR_INSUFFICIENT_FUNDS)
    /\ \E m \in DOMAIN markets : Pools(m) > 0

\* C15: a successful place-bet(market, outcome, amount) moves amount from the
\* caller to the contract, adds amount to exactly one pool (pool-a if outcome
\* is outcome-a, otherwise pool-b), stores the caller's bet as (outcome,
\* amount, claimed false), raises the caller's total-bets by 1, and changes
\* nothing else: other fields of the market, other markets, other bets, other
\* users' stats, other balances, the treasury and the nonce.
C15_PlaceBetFrame ==
    \A u \in Users, m \in MarketIds, w \in Labels, amt \in Amounts :
        LET o == place_bet(Ledger, u, block_height, m, w, amt)
            N == o.ledger
            old == get_user_stats(Ledger, u)
            to_a == w = markets[m].outcome_a
        IN o.res.ok =>
            /\ N.balances = [a \in Accounts |->
                                IF a = u THEN balances[a] - amt
                                ELSE IF a = Contract THEN balances[a] + amt
                                ELSE balances[a]]
            /\ DOMAIN N.markets = DOMAIN markets
            /\ \A x \in DOMAIN markets \ {m} : N.markets[x] = markets[x]
            /\ N.markets[m] =
                  [markets[m] EXCEPT !.pool_a = IF to_a THEN @ + amt ELSE @,
                                     !.pool_b = IF to_a THEN @ ELSE @ + amt]
            /\ DOMAIN N.bets = DOMAIN bets \cup {<<m, u>>}
            /\ \A k \in DOMAIN bets \ {<<m, u>>} : N.bets[k] = bets[k]
            /\ N.bets[<<m, u>>] = [outcome |-> w, amount |-> amt, claimed |-> FALSE]
            /\ DOMAIN N.user_stats = DOMAIN user_stats \cup {u}
            /\ \A x \in DOMAIN user_stats \ {u} : N.user_stats[x] = user_stats[x]
            /\ N.user_stats[u] = [old EXCEPT !.total_bets = @ + 1]
            /\ N.treasury_balance = treasury_balance
            /\ N.market_id_nonce = market_id_nonce

C15_Witness ==
    /\ last.op = "place-bet"
    /\ last.res.ok
    /\ DOMAIN markets = {1, 2}
    /\ DOMAIN bets = {<<2, "wallet_1">>}
    /\ markets[2].pool_a = 0
    /\ markets[2].pool_b = bets[<<2, "wallet_1">>].amount
    /\ user_stats["wallet_1"].total_bets = 1

\* C16: a second successful place-bet by a user on a market they already bet
\* on replaces the stored bet by the new (outcome, amount, claimed false)
\* without adding the amounts, keeps the first bet's amount in the pools (the
\* pools grow by the new amount), and raises total-bets again; the stored
\* amount never exceeds what was placed on the market.
C16_RebetOverwrites ==
    /\ \A k \in DOMAIN bets : bets[k].amount <= At(placed, k[1])
    /\ \A k \in DOMAIN bets, w \in Labels, amt \in Amounts :
          LET o == place_bet(Ledger, k[2], block_height, k[1], w, amt)
              N == o.ledger
          IN o.res.ok =>
              /\ N.bets[k] = [outcome |-> w, amount |-> amt, claimed |-> FALSE]
              /\ N.markets[k[1]].pool_a + N.markets[k[1]].pool_b = Pools(k[1]) + amt
              /\ N.markets[k[1]].pool_a >= markets[k[1]].pool_a
              /\ N.markets[k[1]].pool_b >= markets[k[1]].pool_b
              /\ N.user_stats[k[2]].total_bets = user_stats[k[2]].total_bets + 1

C16_Witness ==
    /\ last.op = "place-bet"
    /\ last.res.ok
    /\ \E k \in DOMAIN bets :
          /\ DOMAIN bets = {k}
          /\ user_stats[k[2]].total_bets = 2
          /\ bets[k].amount < Pools(k[1])
          /\ markets[k[1]].pool_a > 0
          /\ markets[k[1]].pool_b > 0

\* C17: claim-winnings checks in the order: ERR-MARKET-NOT-FOUND (101) if
\* the market is absent; ERR-NOT-AUTHORIZED (100) if the caller has no bet on
\* it, also when the market is unresolved; ERR-MARKET-NOT-FOUND (101) if the
\* caller has a bet but no winning outcome is set; ERR-ALREADY-CLAIMED (106)
\* if the bet is claimed.  Each failure leaves the ledger unchanged.
C17_ClaimCheckOrder ==
    \A u \in Users, m \in MarketIds :
        LET o == claim_winnings(Ledger, u, m)
            absent == m \notin DOMAIN markets
            noBet == <<m, u>> \notin DOMAIN bets
            unresolved == ~markets[m].resolved
            fails(code) == o.res = Err(code) /\ o.ledger = Ledger
        IN /\ absent => fails(ERR_MARKET_NOT_FOUND)
           /\ (~absent /\ noBet) => fails(ERR_NOT_AUTHORIZED)
           /\ (~absent /\ ~noBet /\ unresolved) => fails(ERR_MARKET_NOT_FOUND)
           /\ (~absent /\ ~noBet /\ ~unresolved /\ bets[<<m, u>>].claimed) =>
                 fails(ERR_ALREADY_CLAIMED)

C17_Witness ==
    /\ last.op = "claim-winnings"
    /\ last.res = Err(ERR_NOT_AUTHORIZED)
    /\ DOMAIN markets = {1}
    /\ ~markets[1].resolved
    /\ <<1, last.sender>> \notin DOMAIN bets
    /\ bets # EmptyMap

\* C19: calculate-multiplier(s) is 10 * min(floor(s / 3), 10): one of 0, 10,
\* ..., 100, non-decreasing in s, 0 for s = 1, 10 for s = 3, 20 for s = 6,
\* 100 for s = 30 and 100 for s = 1000.
C19_Multiplier ==
    IsSome(multiplier_call.result) =>
        LET s == multiplier_call.streak
            r == Unwrap(multiplier_call.result)
            steps == s \div 3
        IN /\ r = 10 * (IF steps < 10 THEN steps ELSE 10)
           /\ r \in {10 * k : k \in 0..10}
           /\ \A t \in Streaks : t <= s => calculate_multiplier(t) <= r
           /\ s = 1 => r = 0
           /\ s = 3 => r = 10
           /\ s = 6 => r = 20
           /\ s = 30 => r = 100
           /\ s = 1000 => r = 100

C19_Witness ==
    /\ multiplier_call.streak = 1000
    /\ multiplier_call.result = Some(100)

\* C18: a winning claim's share is floor(bet.amount * (pool-a + pool-b) /
\* winning-pool), with the stored bet amount and the pool of the winning
\* outcome, and total-earnings grows by the share and the bonus paid.  Two
\* bettors with 1000 each on opposite outcomes give the winner share 2000
\* and, at streak 1, total-earnings 2000; 2,000,000 against 3,000,000 give
\* total-earnings 5,000,000 (evaluated in units of 100, as 20000 against
\* 30000 giving 50000, to keep the product within TLC's integers).
C18_Share ==
    /\ \A u \in Users, m \in DOMAIN markets :
          LET o == claim_winnings(Ledger, u, m) IN
          (o.res.ok /\ o.win) =>
              LET bet == bets[<<m, u>>]
                  winning_pool ==
                      IF Unwrap(markets[m].winning_outcome) = markets[m].outcome_a
                      THEN markets[m].pool_a ELSE markets[m].pool_b
              IN /\ winning_pool > 0
                 /\ o.share * winning_pool <= bet.amount * Pools(m)
                 /\ bet.amount * Pools(m) < (o.share + 1) * winning_pool
                 /\ o.ledger.user_stats[u].total_earnings =
                        get_user_stats(Ledger, u).total_earnings + o.share + o.bonus
    /\ LET o == OppositeBets(100000, "X", "Y", 10000, 1000, 1000) IN
          /\ o.res.ok /\ o.win
          /\ o.share = 2000
          /\ o.ledger.user_stats["wallet_1"].current_streak = 1
          /\ o.ledger.user_stats["wallet_1"].total_earnings = 2000
    /\ LET o == OppositeBets(100000, "PARTY_A", "PARTY_B", 30000, 20000, 30000) IN
          /\ o.res.ok /\ o.win
          /\ o.ledger.user_stats["wallet_1"].total_earnings = 50000

C18_Witness ==
    /\ last.op = "claim-winnings"
    /\ last.res.ok
    /\ last.win
    /\ last.share = 26
    /\ Pools(1) = 40
    /\ bets[<<1, last.sender>>].amount = 20

Winner(u, m) ==
    /\ <<m, u>> \in DOMAIN bets
    /\ markets[m].resolved
    /\ ~bets[<<m, u>>].claimed
    /\ markets[m].winning_outcome = Some(bets[<<m, u>>].outcome)
ShareDue(u, m) ==
    (bets[<<m, u>>].amount * Pools(m))
        \div (IF bets[<<m, u>>].outcome = markets[m].outcome_a
              THEN markets[m].pool_a ELSE markets[m].pool_b)
BonusDue(u, m) ==
    (ShareDue(u, m) * calculate_multiplier(get_user_stats(Ledger, u).current_streak + 1))
        \div 100

\* C21: a winning claim whose computed bonus exceeds the treasury balance
\* still succeeds, pays exactly the share (no partial bonus), leaves the
\* treasury balance unchanged and updates streak and wins as any win does;
\* with bonus 200 and treasury 50 the payout is the share 2000.
C21_BonusDropped ==
    /\ \A u \in Users, m \in DOMAIN markets :
          (Winner(u, m) /\ BonusDue(u, m) > treasury_balance) =>
              LET o == claim_winnings(Ledger, u, m)
                  old == get_user_stats(Ledger, u)
                  new == o.ledger.user_stats[u]
              IN /\ o.res.ok /\ o.win
                 /\ o.share = ShareDue(u, m)
                 /\ o.bonus = 0
                 /\ o.ledger.balances[u] = balances[u] + o.share
                 /\ o.ledger.balances[Contract] = balances[Contract] - o.share
                 /\ o.ledger.treasury_balance = treasury_balance
                 /\ new.current_streak = old.current_streak + 1
                 /\ new.total_wins = old.total_wins + 1
                 /\ new.total_earnings = old.total_earnings + o.share
    /\ LET L == FundedStreak(50, 1000, 1000).ledger
           o == claim_winnings(L, "wallet_1", 4)
       IN /\ L.treasury_balance = 50
          /\ L.user_stats["wallet_1"].current_streak = 3
          /\ o.res.ok /\ o.win
          /\ o.share = 2000
          /\ o.bonus = 0
          /\ o.ledger.balances["wallet_1"] = L.balances["wallet_1"] + 2000
          /\ o.ledger.treasury_balance = 50
          /\ o.ledger.user_stats["wallet_1"].current_streak = 4
          /\ o.ledger.user_stats["wallet_1"].total_wins = 4

C21_Witness ==
    /\ last.op = "claim-winnings"
    /\ last.res.ok
    /\ last.win
    /\ last.share = 20
    /\ last.bonus = 0
    /\ user_stats[last.sender].current_streak = 3
    /\ treasury_balance = 0

StatsOf(u) == get_user_stats(Ledger, u)

\* C22: for every user, current-streak is 0 right after a successful loss
\* claim; a successful win claim raises current-streak by exactly 1 and
\* total-wins by exactly 1 and sets highest-streak to the larger of its old
\* value and the new current-streak; no step lowers highest-streak or
\* total-earnings.
C22_StreakUpdates ==
    [][/\ (last'.op = "claim-winnings" /\ last'.res.ok /\ ~last'.win) =>
              get_user_stats(Ledger', last'.sender).current_streak = 0
       /\ (last'.op = "claim-winnings" /\ last'.res.ok /\ last'.win) =>
              LET old == get_user_stats(Ledger, last'.sender)
                  new == get_user_stats(Ledger', last'.sender)
              IN /\ new.current_streak = old.current_streak + 1
                 /\ new.total_wins = old.total_wins + 1
                 /\ new.highest_streak =
                       IF old.highest_streak >= new.current_streak
                       THEN old.highest_streak ELSE new.current_streak
       /\ \A u \in Users :
              /\ StatsOf(u)'.highest_streak >= StatsOf(u).highest_streak
              /\ StatsOf(u)'.total_earnings >= StatsOf(u).total_earnings]_vars

C22_Witness ==
    /\ last.op = "claim-winnings"
    /\ last.res.ok
    /\ ~last.win
    /\ StatsOf(last.sender).current_streak = 0
    /\ StatsOf(last.sender).highest_streak = 2

\* The holder of an unclaimed bet on the losing outcome of a resolved market.
Loser(u, m) ==
    /\ <<m, u>> \in DOMAIN bets
    /\ markets[m].resolved
    /\ ~bets[<<m, u>>].claimed
    /\ markets[m].winning_outcome # Some(bets[<<m, u>>].outcome)

\* C23: claim-winnings by a user whose bet is on the losing outcome of a
\* resolved market returns (ok true), moves no value (balances and treasury
\* unchanged), sets current-streak to 0, leaves total-bets, total-wins,
\* highest-streak and total-earnings as they were, and sets the bet's claimed
\* flag; markets, other bets, other stats and the nonce are unchanged.
C23_LossClaimFrame ==
    \A u \in Users, m \in DOMAIN markets :
        Loser(u, m) =>
            LET o == claim_winnings(Ledger, u, m) IN
            /\ o.res = OkTrue
            /\ ~o.win
            /\ o.ledger.balances = balances
            /\ o.ledger.treasury_balance = treasury_balance
            /\ o.ledger.markets = markets
            /\ o.ledger.market_id_nonce = market_id_nonce
            /\ o.ledger.user_stats =
                  [user_stats EXCEPT ![u] = [StatsOf(u) EXCEPT !.current_streak = 0]]
            /\ o.ledger.bets = [bets EXCEPT ![<<m, u>>].claimed = TRUE]

C23_Witness ==
    /\ last.op = "claim-winnings"
    /\ last.res.ok
    /\ ~last.win
    /\ bets[<<3, last.sender>>].claimed
    /\ StatsOf(last.sender) =
          [total_bets |-> 3, total_wins |-> 2, current_streak |-> 0,
           highest_streak |-> 2, total_earnings |-> 20]

\* C24: in every reachable state every user's highest-streak is at least
\* their current-streak.
C24_HighestAtLeastCurrent ==
    \A u \in Users : StatsOf(u).highest_streak >= StatsOf(u).current_streak

C24_Witness ==
    \E u \in Users :
        /\ StatsOf(u).current_streak = 3
        /\ StatsOf(u).highest_streak = 3

\* C25: in every reachable state every user's total-wins is at most their
\* total-bets, also after re-bets on one market and with bets never claimed.
C25_WinsAtMostBets ==
    \A u \in Users : StatsOf(u).total_wins <= StatsOf(u).total_bets

C25_Witness ==
    \E u \in Users :
        /\ StatsOf(u).total_wins = 1
        /\ StatsOf(u).total_bets = 1
        /\ last.op = "claim-winnings"
        /\ last.sender = u
        /\ last.win

C28_StreakTestStats ==
    /\ \A m \in DOMAIN markets :
          (/\ Winner("wallet_1", m)
           /\ bets[<<m, "wallet_1">>].amount = 10
           /\ Pools(m) = 10
           /\ treasury_balance > 0
           /\ StatsOf("wallet_1") =
                 [total_bets |-> 3, total_wins |-> 2, current_streak |-> 2,
                  highest_streak |-> 2, total_earnings |-> 20]) =>
              claim_winnings(Ledger, "wallet_1", m).ledger.user_stats["wallet_1"] =
                 [total_bets |-> 3, total_wins |-> 3, current_streak |-> 3,
                  highest_streak |-> 3, total_earnings |-> 30]
    /\ LET f == FundedStreak(1000000, 1000, 1000)
           fourth == claim_winnings(f.ledger, "wallet_1", 4)
       IN /\ f.third.res.ok
          /\ f.third.ledger.user_stats["wallet_1"] =
                [total_bets |-> 3, total_wins |-> 3, current_streak |-> 3,
                 highest_streak |-> 3, total_earnings |-> 3000]
          /\ fourth.res.ok
          /\ fourth.ledger.user_stats["wallet_1"].current_streak = 4
          /\ fourth.ledger.user_stats["wallet_1"].total_wins = 4
          /\ fourth.ledger.user_stats["wallet_1"].total_earnings = 5200

\* The arguments a caller can hand to create-market: texts that may be empty,
\* labels that may coincide, and end times on both sides of the current height.
CategoryInputs == Categories \cup {""}
QuestionInputs == Questions \cup {""}
OutcomeInputs == Labels \cup {""}
EndTimes == 0..(MaxTime + 1)

\* C29: create-market validates its inputs: a call whose end time is not
\* later than the current block height, or whose category, question or
\* outcome text is empty, creates no market; so every stored market ends
\* after it started and has non-empty texts.
C29_InputValidation ==
    /\ \A m \in DOMAIN markets :
          /\ markets[m].end_time > markets[m].start_time
          /\ markets[m].category # "" /\ markets[m].question # ""
          /\ markets[m].outcome_a # "" /\ markets[m].outcome_b # ""
    /\ \A c \in CategoryInputs, q \in QuestionInputs,
          a \in OutcomeInputs, b \in OutcomeInputs, t \in EndTimes :
          (t <= block_height \/ c = "" \/ q = "" \/ a = "" \/ b = "") =>
              LET o == create_market(Ledger, CONTRACT_OWNER, block_height, c, q, a, b, t)
              IN /\ ~o.res.ok
                 /\ o.ledger.markets = markets
                 /\ o.ledger.market_id_nonce = market_id_nonce

C31_NeverMarketClosed ==
    /\ \A m \in DOMAIN markets :
          IsSome(markets[m].winning_outcome) => markets[m].resolved
    /\ \A u \in Users, m \in MarketIds :
          claim_winnings(Ledger, u, m).res # Err(ERR_MARKET_CLOSED)
    /\ (last.op = "claim-winnings" => last.res # Err(ERR_MARKET_CLOSED))

\* A claim has passed the check of the resolved flag on a market with a
\* recorded winning outcome, while another market is still unresolved.
C31_Witness ==
    /\ last.op = "claim-winnings"
    /\ last.res.ok
    /\ \E m \in DOMAIN markets :
          /\ IsSome(markets[m].winning_outcome)
          /\ <<m, last.sender>> \in DOMAIN bets
          /\ bets[<<m, last.sender>>].claimed
    /\ \E m \in DOMAIN markets : ~markets[m].resolved

\* C32: whenever claim-winnings reaches the win branch, the winning pool is
\* at least the caller's stored bet amount, which is positive: the division
\* by the winning pool is no division by zero, the share is at least the
\* stored amount, and the payout is not for a zero amount.
C32_WinningPoolCoversBet ==
    \A u \in Users, m \in DOMAIN markets :
        Winner(u, m) =>
            LET bet == bets[<<m, u>>]
                winning_pool == winning_pool_of(markets[m], bet.outcome)
                o == claim_winnings(Ledger, u, m)
            IN /\ bet.amount > 0
               /\ winning_pool >= bet.amount
               /\ o.res # RuntimeAbort
               /\ o.res.ok => (o.win /\ o.share >= bet.amount /\ o.share + o.bonus > 0)

\* A winner has claimed on a market whose winning pool holds more than the
\* winner's stored amount.
C32_Witness ==
    /\ last.op = "claim-winnings"
    /\ last.res.ok /\ last.win
    /\ \E m \in DOMAIN markets :
          /\ <<m, last.sender>> \in DOMAIN bets
          /\ bets[<<m, last.sender>>].claimed
          /\ markets[m].winning_outcome = Some(bets[<<m, last.sender>>].outcome)
          /\ winning_pool_of(markets[m], bets[<<m, last.sender>>].outcome)
                > bets[<<m, last.sender>>].amount
          /\ last.share >= bets[<<m, last.sender>>].amount

\* What markets 1..n still owe: their pools less the shares paid out of them.
RECURSIVE Outstanding(_)
Outstanding(n) ==
    IF n = 0 THEN 0
    ELSE (IF n \in DOMAIN markets THEN Pools(n) - At(paid, n) ELSE 0) + Outstanding(n - 1)

\* C33: the balance of the contract's account equals the treasury balance
\* plus, summed over all markets, pool-a + pool-b less the shares already
\* paid out of the market; so it is never less than the treasury balance.
C33_Custody ==
    /\ DOMAIN markets = 1..market_id_nonce
    /\ balances[Contract] = treasury_balance + Outstanding(market_id_nonce)
    /\ \A m \in DOMAIN markets : Pools(m) - At(paid, m) >= 0
    /\ balances[Contract] >= treasury_balance

\* A winning claim has taken a share and a bonus out of the contract's
\* account, which still holds treasury funds.
C33_Witness ==
    /\ last.op = "claim-winnings"
    /\ last.res.ok /\ last.win
    /\ last.share > 0 /\ last.bonus > 0
    /\ treasury_balance > 0
    /\ balances[Contract] > 0

\* C34: a claim-winnings call by a user who holds an unclaimed bet on the
\* winning outcome of a resolved market succeeds: the contract's account
\* holds at least the share plus the bonus actually due, whichever other
\* winners and losers have claimed before.
C34_WinnerIsPaid ==
    \A u \in Users, m \in DOMAIN markets :
        Winner(u, m) =>
            LET due == ShareDue(u, m) + actual_bonus_of(treasury_balance, BonusDue(u, m))
                o == claim_winnings(Ledger, u, m)
            IN /\ balances[Contract] >= due
               /\ o.res = OkTrue
               /\ o.win
               /\ o.share + o.bonus = due
               /\ o.ledger.balances[u] = balances[u] + due

\* The second of two bettors of one market has just been paid as a winner.
C34_Witness ==
    /\ last.op = "claim-winnings"
    /\ last.res.ok /\ last.win
    /\ last.share > 0
    /\ \E m \in DOMAIN markets :
          \A u \in Users : <<m, u>> \in claimants /\ <<m, u>> \in DOMAIN bets
                             /\ bets[<<m, u>>].claimed

\* The keys of the bet records stored on market m.
BetsOn(m) == {k \in DOMAIN bets : k[1] = m}

\* C35: once a market is resolved, no step changes its pools, adds or removes
\* a bet record on it, or changes the outcome or the amount of one; a claimed
\* flag that is true stays true, since no place-bet succeeds on a resolved
\* market.
C35_ResolvedIsFinal ==
    [][\A m \in DOMAIN markets :
          markets[m].resolved =>
              /\ m \in DOMAIN markets'
              /\ markets'[m] = markets[m]
              /\ {k \in DOMAIN bets' : k[1] = m} = BetsOn(m)
              /\ \A k \in BetsOn(m) :
                    /\ bets'[k].outcome = bets[k].outcome
                    /\ bets'[k].amount = bets[k].amount
                    /\ bets[k].claimed => bets'[k].claimed
              /\ \A u \in Users, w \in Labels, amt \in Amounts :
                    ~place_bet(Ledger, u, block_height, m, w, amt).res.ok]_vars

\* A bet has been refused with ERR-MARKET-CLOSED while every market is
\* resolved, one of them before its end time and holding a claimed bet of
\* the refused caller.
C35_Witness ==
    /\ last.op = "place-bet"
    /\ last.res = Err(ERR_MARKET_CLOSED)
    /\ \E m \in DOMAIN markets :
          /\ markets[m].resolved
          /\ block_height < markets[m].end_time
          /\ <<m, last.sender>> \in DOMAIN bets
          /\ bets[<<m, last.sender>>].claimed
    /\ \A m \in DOMAIN markets : markets[m].resolved

\* Market m is resolved to an outcome on which no bet record is stored.
Unbacked(m) ==
    /\ markets[m].resolved
    /\ \A k \in BetsOn(m) : markets[m].winning_outcome # Some(bets[k].outcome)

\* C36: if a market is resolved to an outcome on which no bet record is
\* stored, every successful claim on it is a loss claim that pays nothing,
\* nothing has been paid out of it, its pool-a + pool-b stays in the
\* contract's account on top of the treasury, and no step changes that.
C36_LockedFunds ==
    /\ [](\A m \in DOMAIN markets :
            Unbacked(m) =>
                /\ At(paid, m) = 0
                /\ balances[Contract] >= treasury_balance + Pools(m)
                /\ \A u \in Users :
                      LET o == claim_winnings(Ledger, u, m)
                      IN o.res.ok =>
                            /\ ~o.win /\ o.share = 0 /\ o.bonus = 0
                            /\ o.ledger.balances = balances
                            /\ o.ledger.treasury_balance = treasury_balance
                            /\ o.ledger.markets = markets)
    /\ [][\A m \in DOMAIN markets :
            Unbacked(m) =>
                /\ m \in DOMAIN markets' /\ markets'[m].resolved
                /\ \A k \in {j \in DOMAIN bets' : j[1] = m} :
                      markets'[m].winning_outcome # Some(bets'[k].outcome)
                /\ markets'[m].pool_a + markets'[m].pool_b = Pools(m)]_vars

\* The only bettor of a market resolved to the other outcome has claimed: the
\* claim was a loss and the stake is still in the contract's account.
C36_Witness ==
    /\ last.op = "claim-winnings"
    /\ last.res.ok /\ ~last.win
    /\ \E m \in DOMAIN markets :
          /\ Unbacked(m)
          /\ BetsOn(m) = {<<m, last.sender>>}
          /\ bets[<<m, last.sender>>].claimed
          /\ Pools(m) > 0
          /\ balances[Contract] >= Pools(m)

\* After its two wins wallet_1 bets 10 on NO in market 3, which the owner
\* resolves to YES; wallet_1 does not claim, and the deployer funds the
\* treasury with 10.  The result of the funding.
UnclaimedLoss ==
    LET o1 == create_market(Round2.ledger, CONTRACT_OWNER, 0, "CRYPTO", "Will BTC hit 100k?",
                            "YES", "NO", 1)
        o2 == place_bet(o1.ledger, "wallet_1", 0, 3, "NO", 10)
        o3 == resolve_market(o2.ledger, CONTRACT_OWNER, 3, "YES")
    IN fund_treasury(o3.ledger, "deployer", 10)

\* C37: a user's stats change only through that user's own successful
\* place-bet and claim-winnings calls: create-market, resolve-market,
\* fund-treasury and every call of another account leave them as they are.
\* So resolving a market in which the user lost does not reset
\* current-streak, and a losing bet that is never claimed leaves the streak
\* in place and the bonus of the next win as it was (the first conjunct:
\* the win of market 4 after UnclaimedLoss is paid for a streak of three).
C37_StatsFrame ==
    /\ LET later == WinRound(UnclaimedLoss.ledger, 4)
       IN /\ UnclaimedLoss.res.ok
          /\ UnclaimedLoss.ledger.user_stats["wallet_1"].current_streak = 2
          /\ later.res.ok /\ later.win
          /\ later.share = 10
          /\ later.bonus = 1
          /\ later.ledger.user_stats["wallet_1"].current_streak = 3
    /\ [](\A u \in Users :
            /\ \A a \in MarketArgs :
                  get_user_stats(create_market(Ledger, CONTRACT_OWNER, block_height, "CRYPTO",
                                               "Will BTC hit 100k?", a[1], a[2], a[3]).ledger, u)
                     = StatsOf(u)
            /\ \A m \in MarketIds, w \in Labels :
                  get_user_stats(resolve_market(Ledger, CONTRACT_OWNER, m, w).ledger, u)
                     = StatsOf(u)
            /\ \A v \in Users, amt \in FundAmounts :
                  get_user_stats(fund_treasury(Ledger, v, amt).ledger, u) = StatsOf(u)
            /\ \A v \in Users \ {u}, m \in MarketIds :
                  /\ get_user_stats(claim_winnings(Ledger, v, m).ledger, u) = StatsOf(u)
                  /\ \A w \in Labels, amt \in Amounts :
                        get_user_stats(place_bet(Ledger, v, block_height, m, w, amt).ledger, u)
                           = StatsOf(u))
    /\ [][\A u \in Users :
            get_user_stats(Ledger', u) # StatsOf(u) =>
                /\ last'.sender = u
                /\ last'.op \in {"place-bet", "claim-winnings"}
                /\ last'.res.ok]_vars

\* A market on which wallet_1 holds a losing bet has just been resolved, and
\* wallet_1's streak of two is still in place.
C37_Witness ==
    /\ last.op = "resolve-market"
    /\ last.res.ok
    /\ \E m \in DOMAIN markets :
          /\ Loser("wallet_1", m)
    /\ StatsOf("wallet_1").current_streak = 2
    /\ StatsOf("wallet_1").total_bets = 3

====
